---------------------------- MODULE Spec2Model ----------------------------
(***************************************************************************)
(* Model of Henry_Task/easy_apply/find_linkedin_easy_apply.py: the module  *)
(* level start-up, the five controller actions (save_jobs, read_jobs,      *)
(* linkedin_login, read_cv, upload_cv), and main(), which builds two       *)
(* agents on one browser and awaits asyncio.gather over their run loops.   *)
(*                                                                         *)
(* Text is a sequence of strings, one per character where the characters   *)
(* matter (the CSV file) and one per fragment elsewhere (messages).  An     *)
(* Optional[str] is a record [isNone, s].  The file jobs.csv is a record    *)
(* [exists, data].                                                         *)
(***************************************************************************)
EXTENDS Integers, Sequences, FiniteSets, TLC

VARIABLES
    env,          \* os.environ after load_dotenv(): linkedin_email, linkedin_password,
                  \* and the text encoding its locale settings give open()
    cvExists,     \* whether Path.cwd() / 'Hsu_Tse_Chun_s_CV_DS.pdf' exists
    ppc,          \* position of the process (module level, main, asyncio.run)
    controller,   \* the Controller: created flag and the registered action names
    browser,      \* the module-level Browser: created flag and its config
    agents,       \* the list `agents` built by main()
    status,       \* per agent: state of the task asyncio.gather made for agent.run()
    act,          \* per agent: the controller action in progress and its position
    result,       \* per agent: what the last controller action returned or raised
    trace,        \* per agent: the awaited steps the current/last action executed
    store,        \* the file jobs.csv
    appended      \* jobs in the order their save_jobs completed (history)

vars == <<env, cvExists, ppc, controller, browser, agents, status, act, result,
          trace, store, appended>>

-----------------------------------------------------------------------------
(* Bounds of the model                                                     *)

\* save_jobs calls per run (the agent loop itself is unbounded)
MaxSaves == 2

-----------------------------------------------------------------------------
(* Optional values and text                                                *)

None == [isNone |-> TRUE, s |-> <<>>]

Some(t) == [isNone |-> FALSE, s |-> t]

\* Python truthiness of an Optional[str]: None and '' are falsy
Truthy(v) == ~v.isNone /\ Len(v.s) > 0

CR == "\r"

LF == "\n"

QUOTE == "\""

COMMA == ","

\* U+2013, a character outside ASCII
EN_DASH == "u2013"

\* U+D800, a lone surrogate
SURROGATE == "ud800"

\* str.encode(enc) with the strict error handler succeeds on text t
Encodable(t, enc) ==
    \A i \in 1..Len(t) :
        /\ t[i] # SURROGATE
        /\ t[i] = EN_DASH => enc = "utf-8"

Digits == <<"0", "1", "2", "3", "4", "5", "6", "7", "8", "9">>

\* str(index): the decimal digits, with a leading minus sign below zero
RECURSIVE IntStr(_)
IntStr(i) ==
    IF i < 0 THEN "-" \o IntStr(0 - i)
    ELSE IF i < 10 THEN Digits[i + 1]
    ELSE IntStr(i \div 10) \o Digits[(i % 10) + 1]

-----------------------------------------------------------------------------
(* csv.writer(f).writerow(...) with the default (excel) dialect            *)

\* the characters that force a field to be quoted under QUOTE_MINIMAL:
\* the delimiter, the quote character and the characters of the line
\* terminator "\r\n"
NeedsQuote(t) == \E i \in 1..Len(t) : t[i] \in {COMMA, QUOTE, CR, LF}

RECURSIVE Concat(_, _, _)
\* the pieces ps[lo], ..., ps[hi] joined in order
Concat(ps, lo, hi) ==
    IF lo > hi THEN <<>>
    ELSE IF lo = hi THEN ps[lo]
    ELSE Concat(ps, lo, (lo + hi) \div 2) \o Concat(ps, (lo + hi) \div 2 + 1, hi)

\* doublequote=True: every quote character inside a field is written twice
DoubleQuotes(t) ==
    Concat([i \in 1..Len(t) |-> IF t[i] = QUOTE THEN <<QUOTE, QUOTE>> ELSE <<t[i]>>],
           1, Len(t))

\* one field as the writer emits it; None is written as the empty string
WriteField(v) ==
    LET t == IF v.isNone THEN <<>> ELSE v.s
    IN  IF NeedsQuote(t) THEN <<QUOTE>> \o DoubleQuotes(t) \o <<QUOTE>> ELSE t

RECURSIVE JoinFields(_)
JoinFields(fs) ==
    IF Len(fs) = 0 THEN <<>>
    ELSE IF Len(fs) = 1 THEN WriteField(fs[1])
    ELSE WriteField(fs[1]) \o <<COMMA>> \o JoinFields(Tail(fs))

\* writerow: the fields joined by the delimiter, then the line terminator; a
\* row of one empty field is written as an empty quoted field
WriteRow(fs) ==
    (IF Len(fs) = 1 /\ JoinFields(fs) = <<>> THEN <<QUOTE, QUOTE>> ELSE JoinFields(fs))
        \o <<CR, LF>>

\* the columns in the order class Job declares them: link before company
JobRow_DeclarationOrder(job) ==
    <<Some(job.title), Some(job.link), Some(job.company), job.salary, job.location>>

\* the list save_jobs hands to writerow: the fit score is not written
JobRow(job) ==
    <<Some(job.title), Some(job.company), Some(job.link), job.salary, job.location>>

\* open('jobs.csv', 'r'): text mode with universal newlines, so "\r\n" and a
\* lone "\r" are both read as "\n"
TranslateNewlines(t) ==
    Concat([i \in 1..Len(t) |->
               IF t[i] = CR THEN <<LF>>
               ELSE IF t[i] = LF /\ i > 1 /\ t[i - 1] = CR THEN <<>>
               ELSE <<t[i]>>],
           1, Len(t))

-----------------------------------------------------------------------------
(* Inputs of the model                                                     *)

\* class Job: the jobs an agent may hand to save_jobs.  JobA and JobB share a
\* link; JobB and JobC carry the characters the csv writer treats specially;
\* the link of JobC holds an en dash, which ASCII cannot encode and UTF-8 can.
JobA == [title |-> <<"a">>, link |-> <<"l">>, company |-> <<"b">>,
         fit_score |-> 1, location |-> None, salary |-> None]

JobB == [title |-> <<"x", COMMA, "y">>, link |-> <<"l">>, company |-> <<"q", QUOTE>>,
         fit_score |-> 2, location |-> Some(<<"c", LF, "d">>), salary |-> Some(<<"5">>)]

JobC == [title |-> <<"a", CR, "b">>, link |-> <<EN_DASH>>, company |-> <<>>,
         fit_score |-> 0, location |-> Some(<<CR, LF>>), salary |-> Some(<<>>)]

Jobs == {JobA, JobB, JobC}

NoFile == [exists |-> FALSE, dir |-> FALSE, data |-> <<>>]

File(d) == [exists |-> TRUE, dir |-> FALSE, data |-> d]

\* the name jobs.csv is taken by a directory
Directory == [exists |-> TRUE, dir |-> TRUE, data |-> <<>>]

\* jobs.csv when the process starts: absent, left by an earlier run that
\* saved JobB, or a directory
StoreChoices == {NoFile, File(WriteRow(JobRow(JobB))), Directory}

\* the encoding open() takes from the locale when none is passed
Encodings == {"ascii", "utf-8"}

Env(email, password, enc) ==
    [linkedin_email |-> email, linkedin_password |-> password, encoding |-> enc]

\* the environment after load_dotenv(): both credentials set under either
\* encoding, or one of them unset or empty
EnvChoices ==
    {Env(Some(<<"me@x">>), Some(<<"pw">>), enc) : enc \in Encodings}
        \cup {Env(e, Some(<<"pw">>), "utf-8") : e \in {None, Some(<<>>)}}
        \cup {Env(Some(<<"me@x">>), p, "ascii") : p \in {None, Some(<<>>)}}

\* what `raise`d exceptions print as: str(e) may be empty
ExcTexts == {<<>>, <<"Timeout">>}

\* element indexes an agent may pass to upload_cv
Indexes == {1, 2}

\* how the resolution at an index ends: get_dom_element_by_index raises, it
\* returns None, it returns an element whose get_file_upload_element() raises,
\* an element without a nested file input, an element with one
DomChoices == {"raise", "none", "nested_raise", "plain", "with_upload"}

\* how get_locate_element ends
LocateChoices == {"raise", "none", "found"}

\* the pages of the resume: extract_text() of a page may return None
CvPages == <<Some(<<"c", "v">>), None, Some(<<"x">>)>>

\* where reading the resume fails: nowhere, in PdfReader(CV), or in
\* extract_text() of page `page`
CvFailures ==
    {[at |-> "nowhere", page |-> 0], [at |-> "PdfReader", page |-> 0]}
        \cup {[at |-> "extract_text", page |-> k] : k \in 1..Len(CvPages)}

\* str(CV.absolute()): the working directory joined with the fixed file name
CvPath == "/cwd/Hsu_Tse_Chun_s_CV_DS.pdf"

\* the role names appended to ground_task in main()
Roles == <<"data analyst intern", "data scientist intern">>

Agents == 1..Len(Roles)

-----------------------------------------------------------------------------
(* Results of controller actions                                           *)

NoResult ==
    [kind |-> "none", value |-> None, extracted_content |-> None, error |-> None,
     include_in_memory |-> FALSE, exc |-> "-"]

\* a plain str returned by the action
StrResult(t) == [NoResult EXCEPT !.kind = "str", !.value = Some(t)]

\* an exception that leaves the action
Raised(e) == [NoResult EXCEPT !.kind = "raise", !.exc = e]

\* ActionResult(): content and error default to None, the memory flag to False
ActionResultDefault == [NoResult EXCEPT !.kind = "ActionResult"]

Idle == [name |-> "idle", pc |-> 0, index |-> 0]

\* one entry of trace: the call, how it ended, and the index it was given
Step(n, o) == [step |-> n, out |-> o, arg |-> 0]

IndexStep(n, o, i) == [step |-> n, out |-> o, arg |-> i]

-----------------------------------------------------------------------------
(* get_linkedin_credentials(): defined by the script, called nowhere       *)

get_linkedin_credentials(e) ==
    IF ~Truthy(e.linkedin_email) \/ ~Truthy(e.linkedin_password)
    THEN [raised |-> TRUE, exc |-> "ValueError", email |-> None, password |-> None]
    ELSE [raised |-> FALSE, exc |-> "-", email |-> e.linkedin_email,
          password |-> e.linkedin_password]

-----------------------------------------------------------------------------
(* Initial state: the process is about to execute the module               *)

Init ==
    /\ env \in EnvChoices
    /\ cvExists \in BOOLEAN
    /\ store \in StoreChoices
    /\ ppc = "start"
    /\ controller = [created |-> FALSE, actions |-> {}]
    /\ browser = [created |-> FALSE, disable_security |-> FALSE]
    /\ agents = <<>>
    /\ status = [a \in Agents |-> "notlaunched"]
    /\ act = [a \in Agents |-> Idle]
    /\ result = [a \in Agents |-> NoResult]
    /\ trace = [a \in Agents |-> <<>>]
    /\ appended = <<>>

-----------------------------------------------------------------------------
(* Module-level start-up, in source order                                  *)

agentVars == <<status, act, result, trace, store, appended>>

\* lines 39-47: load_dotenv(), the logger, controller = Controller()
CreateController ==
    /\ ppc = "start"
    /\ controller' = [controller EXCEPT !.created = TRUE]
    /\ ppc' = "cv_check"
    /\ UNCHANGED <<env, cvExists, browser, agents, agentVars>>

\* CheckCV without the existence test
CheckCV_NoAbort ==
    /\ ppc = "cv_check"
    /\ ppc' = "register"
    /\ UNCHANGED <<env, cvExists, controller, browser, agents, agentVars>>

\* lines 50-53: the resume must exist, else FileNotFoundError ends the process
CheckCV ==
    /\ ppc = "cv_check"
    /\ ppc' = IF ~cvExists THEN "aborted" ELSE "register"
    /\ UNCHANGED <<env, cvExists, controller, browser, agents, agentVars>>

\* lines 65-149: the @controller.action decorators register the five actions
RegisterActions ==
    /\ ppc = "register"
    /\ controller' = [controller EXCEPT
           !.actions = {"save_jobs", "read_jobs", "linkedin_login", "read_cv", "upload_cv"}]
    /\ ppc' = "browser"
    /\ UNCHANGED <<env, cvExists, browser, agents, agentVars>>

\* lines 152-156: browser = Browser(config=BrowserConfig(disable_security=True))
CreateBrowser ==
    /\ ppc = "browser"
    /\ browser' = [created |-> TRUE, disable_security |-> TRUE]
    /\ ppc' = "entry"
    /\ UNCHANGED <<env, cvExists, controller, agents, agentVars>>

\* lines 196-197: asyncio.run(main()) starts the main coroutine
RunMain ==
    /\ ppc = "entry"
    /\ ppc' = "main"
    /\ UNCHANGED <<env, cvExists, controller, browser, agents, agentVars>>

-----------------------------------------------------------------------------
(* main()                                                                  *)

\* lines 179-182: one task string per role, the preamble then the role name
Tasks == [i \in 1..Len(Roles) |-> <<"ground_task", Roles[i]>>]

\* lines 188-191: one pass of the loop over tasks; every agent gets the one
\* model, the module-level controller and the module-level browser
MainCreateAgent ==
    /\ ppc = "main"
    /\ Len(agents) < Len(Tasks)
    /\ agents' = Append(agents,
           [task |-> Tasks[Len(agents) + 1], llm |-> "gpt-4o",
            controller |-> "controller", browser |-> "browser"])
    /\ UNCHANGED <<env, cvExists, ppc, controller, browser, agentVars>>

\* line 193: asyncio.gather(*[agent.run() for agent in agents]) schedules one
\* task per agent and suspends main() on the gathering future
MainGather ==
    /\ ppc = "main"
    /\ Len(agents) = Len(Tasks)
    /\ status' = [a \in Agents |-> IF a <= Len(agents) THEN "running" ELSE status[a]]
    /\ ppc' = "gather"
    /\ UNCHANGED <<env, cvExists, controller, browser, agents, act, result, trace,
                   store, appended>>

\* a wait that returns as soon as one task has finished
GatherReturn_FirstCompleted ==
    /\ ppc = "gather"
    /\ \E a \in Agents : status[a] = "completed"
    /\ \A a \in Agents : status[a] # "failed"
    /\ ppc' = "main_returned"
    /\ UNCHANGED <<env, cvExists, controller, browser, agents, agentVars>>

\* line 193: every gathered task finished without an exception: the await
\* returns and main() ends
GatherReturn ==
    /\ ppc = "gather"
    /\ \A a \in Agents : status[a] = "completed"
    /\ ppc' = "main_returned"
    /\ UNCHANGED <<env, cvExists, controller, browser, agents, agentVars>>

\* a wait that cancels its other tasks when one of them raises
GatherRaise_CancelsOthers ==
    /\ ppc = "gather"
    /\ \E a \in Agents : status[a] = "failed"
    /\ ppc' = "main_raised"
    /\ status' = [a \in Agents |-> IF status[a] = "running" THEN "cancelled" ELSE status[a]]
    /\ act' = [a \in Agents |-> Idle]
    /\ result' = [a \in Agents |-> IF status[a] = "running" THEN NoResult ELSE result[a]]
    /\ trace' = [a \in Agents |-> IF status[a] = "running" THEN <<>> ELSE trace[a]]
    /\ UNCHANGED <<env, cvExists, controller, browser, agents, store, appended>>

\* line 193: return_exceptions is left False, so the first exception of any
\* gathered task is raised in main() at once; the other tasks are not awaited
\* further and are not cancelled by gather
GatherRaise ==
    /\ ppc = "gather"
    /\ \E a \in Agents : status[a] = "failed"
    /\ ppc' = "main_raised"
    /\ UNCHANGED <<env, cvExists, controller, browser, agents, agentVars>>

\* line 197: asyncio.run() ends: it cancels every task still pending, runs the
\* loop until they are done, closes it, and returns or re-raises
RunShutdown ==
    /\ ppc \in {"main_returned", "main_raised"}
    /\ ppc' = IF ppc = "main_returned" THEN "exited_ok" ELSE "exited_error"
    /\ status' = [a \in Agents |-> IF status[a] = "running" THEN "cancelled" ELSE status[a]]
    /\ act' = [a \in Agents |-> Idle]
    /\ result' = [a \in Agents |-> IF status[a] = "running" THEN NoResult ELSE result[a]]
    /\ trace' = [a \in Agents |-> IF status[a] = "running" THEN <<>> ELSE trace[a]]
    /\ UNCHANGED <<env, cvExists, controller, browser, agents, store, appended>>

-----------------------------------------------------------------------------
(* agent.run(): the loop picks a registered action, or ends                *)

procVars == <<env, cvExists, ppc, controller, browser, agents>>

\* the agent is between two actions of its loop
Ready(a) == status[a] = "running" /\ act[a].name = "idle"

\* the run loop returns
AgentDone(a) ==
    /\ Ready(a)
    /\ status' = [status EXCEPT ![a] = "completed"]
    /\ result' = [result EXCEPT ![a] = NoResult]
    /\ trace' = [trace EXCEPT ![a] = <<>>]
    /\ UNCHANGED <<procVars, act, store, appended>>

\* the run loop ends by an exception nothing handles
AgentRaise(a) ==
    /\ Ready(a)
    /\ status' = [status EXCEPT ![a] = "failed"]
    /\ result' = [result EXCEPT ![a] = NoResult]
    /\ trace' = [trace EXCEPT ![a] = <<>>]
    /\ UNCHANGED <<procVars, act, store, appended>>

-----------------------------------------------------------------------------
(* save_jobs and read_jobs, lines 65-77                                    *)

\* the file opened in mode 'w': truncated, then written
AppendToStore_Truncates(st, text) == File(text)

\* open('jobs.csv', 'a', newline=''): created if absent, written at the end,
\* no newline translation
AppendToStore(st, text) == File(st.data \o text)

\* lines 67-71 have no try block.  open() raises on a directory; otherwise it
\* creates the file if absent.  writerow() hands the whole row to one
\* f.write(), which encodes it: a row the encoding cannot encode raises
\* UnicodeEncodeError with nothing written, and the file open() made stays.
SaveOutcome(st, job, enc) ==
    IF st.dir
    THEN [store |-> st, saved |-> FALSE, result |-> Raised("IsADirectoryError")]
    ELSE IF ~Encodable(WriteRow(JobRow(job)), enc)
    THEN [store |-> File(st.data), saved |-> FALSE,
          result |-> Raised("UnicodeEncodeError")]
    ELSE [store |-> AppendToStore(st, WriteRow(JobRow(job))), saved |-> TRUE,
          result |-> StrResult(<<"Saved job to file">>)]

save_jobs(a, job) ==
    /\ Ready(a)
    /\ LET n == SaveOutcome(store, job, env.encoding)
       IN  /\ n.saved => Len(appended) < MaxSaves
           /\ store' = n.store
           /\ appended' = IF n.saved THEN Append(appended, job) ELSE appended
           /\ result' = [result EXCEPT ![a] = n.result]
    /\ trace' = [trace EXCEPT ![a] = <<>>]
    /\ UNCHANGED <<procVars, status, act>>

\* a read that answers a missing file with empty content
ReadStore_EmptyFallback(st) ==
    IF ~st.exists THEN StrResult(<<>>)
    ELSE IF st.dir THEN Raised("IsADirectoryError")
    ELSE StrResult(TranslateNewlines(st.data))

\* open('jobs.csv', 'r') raises FileNotFoundError when the file is absent and
\* IsADirectoryError on a directory; otherwise f.read() returns the whole text
ReadStore(st) ==
    IF ~st.exists THEN Raised("FileNotFoundError")
    ELSE IF st.dir THEN Raised("IsADirectoryError")
    ELSE StrResult(TranslateNewlines(st.data))

read_jobs(a) ==
    /\ Ready(a)
    /\ result' = [result EXCEPT ![a] = ReadStore(store)]
    /\ trace' = [trace EXCEPT ![a] = <<>>]
    /\ UNCHANGED <<procVars, status, act, store, appended>>

-----------------------------------------------------------------------------
(* linkedin_login, lines 80-108                                            *)

\* the awaited calls of the try block, in source order
LoginSteps ==
    <<"goto", "wait_for_selector input#username", "fill email",
      "wait_for_selector input#password", "fill password",
      "wait_for_selector button[type=submit]", "click", "wait_for_navigation">>

\* line 103
LoginSuccess ==
    [ActionResultDefault EXCEPT
        !.extracted_content = Some(<<"Successfully logged in to LinkedIn">>),
        !.include_in_memory = TRUE]

\* lines 105-108: the message is a fixed prefix followed by str(e)
LoginError(e) ==
    [ActionResultDefault EXCEPT
        !.error = Some(<<"Failed to login to LinkedIn: ">> \o e)]

\* a handler that swallows the exception and goes on with the next step
LoginAfter_GoesOn(k, out, e) ==
    IF k = Len(LoginSteps)
    THEN [act |-> Idle, result |-> IF out = "raise" THEN LoginError(e) ELSE LoginSuccess]
    ELSE [act |-> [name |-> "linkedin_login", pc |-> k + 1, index |-> 0],
          result |-> NoResult]

\* where the coroutine stands after awaited step k ended with `out`
LoginAfter(k, out, e) ==
    IF out = "raise" THEN [act |-> Idle, result |-> LoginError(e)]
    ELSE IF k = Len(LoginSteps) THEN [act |-> Idle, result |-> LoginSuccess]
    ELSE [act |-> [name |-> "linkedin_login", pc |-> k + 1, index |-> 0],
          result |-> NoResult]

\* the agent calls the action: the coroutine runs to its first await (goto)
linkedin_login(a) ==
    /\ Ready(a)
    /\ act' = [act EXCEPT ![a] = [name |-> "linkedin_login", pc |-> 1, index |-> 0]]
    /\ result' = [result EXCEPT ![a] = NoResult]
    /\ trace' = [trace EXCEPT ![a] = <<>>]
    /\ UNCHANGED <<procVars, status, store, appended>>

\* the awaited step returns or raises, and the coroutine runs to its next
\* await or to its return
linkedin_login_step(a) ==
    /\ status[a] = "running"
    /\ act[a].name = "linkedin_login"
    /\ \E o \in {<<"ok", <<>>>>} \cup ({"raise"} \X ExcTexts) :
          LET k == act[a].pc
              out == o[1]
              n == LoginAfter(k, out, o[2])
          IN  /\ trace' = [trace EXCEPT ![a] = Append(@, Step(LoginSteps[k], out))]
              /\ act' = [act EXCEPT ![a] = n.act]
              /\ result' = [result EXCEPT ![a] = n.result]
    /\ UNCHANGED <<procVars, status, store, appended>>

-----------------------------------------------------------------------------
(* read_cv, lines 110-117                                                  *)

\* text += page.extract_text() or '', page by page
CvText(pages) ==
    Concat([i \in 1..Len(pages) |-> IF Truthy(pages[i]) THEN pages[i].s ELSE <<>>],
           1, Len(pages))

\* line 117
CvResult(pages) ==
    [ActionResultDefault EXCEPT !.extracted_content = Some(CvText(pages)),
                                !.include_in_memory = TRUE]

\* lines 112-117 have no try block: an exception of PdfReader(CV) or of a
\* page's extract_text() leaves the action; the pages before it were read
ReadCvOutcome(pages, f) ==
    IF f.at = "PdfReader"
    THEN [result |-> Raised("Exception"), steps |-> <<Step("PdfReader", "raise")>>]
    ELSE IF f.at = "extract_text"
    THEN [result |-> Raised("Exception"),
          steps |-> <<Step("PdfReader", "ok")>>
                    \o [k \in 1..(f.page - 1) |-> IndexStep("extract_text", "ok", k)]
                    \o <<IndexStep("extract_text", "raise", f.page)>>]
    ELSE [result |-> CvResult(pages),
          steps |-> <<Step("PdfReader", "ok")>>
                    \o [k \in 1..Len(pages) |-> IndexStep("extract_text", "ok", k)]]

\* a synchronous function: the whole call is one step of the agent
read_cv(a) ==
    /\ Ready(a)
    /\ \E f \in CvFailures :
          LET n == ReadCvOutcome(CvPages, f)
          IN  /\ result' = [result EXCEPT ![a] = n.result]
              /\ trace' = [trace EXCEPT ![a] = n.steps]
    /\ UNCHANGED <<procVars, status, act, store, appended>>

-----------------------------------------------------------------------------
(* upload_cv, lines 120-149                                                *)

\* line 128
NoElementError(index) ==
    [ActionResultDefault EXCEPT
        !.error = Some(<<"No element found at index ", IntStr(index)>>)]

\* lines 134 and 140
NoUploadElementError(index) ==
    [ActionResultDefault EXCEPT
        !.error = Some(<<"No file upload element found at index ", IntStr(index)>>)]

\* line 149: the exception text is logged, not returned
UploadFailedError(index) ==
    [ActionResultDefault EXCEPT
        !.error = Some(<<"Failed to upload file to index ", IntStr(index)>>)]

\* lines 144-146
UploadSuccess(path, index) ==
    [ActionResultDefault EXCEPT
        !.extracted_content =
            Some(<<"Successfully uploaded file \"", path, "\" to index ", IntStr(index)>>)]

Uploading(k, index) == [name |-> "upload_cv", pc |-> k, index |-> index]

\* one message for both resolution failures
UploadAfterDom_OneMessage(index, dom) ==
    IF dom = "raise"
    THEN [act |-> Idle, result |-> Raised("Exception"),
          steps |-> <<IndexStep("get_dom_element_by_index", "raise", index)>>]
    ELSE IF dom = "none"
    THEN [act |-> Idle, result |-> NoElementError(index),
          steps |-> <<IndexStep("get_dom_element_by_index", "none", index)>>]
    ELSE IF dom = "nested_raise"
    THEN [act |-> Idle, result |-> Raised("Exception"),
          steps |-> <<IndexStep("get_dom_element_by_index", "found", index),
                      Step("get_file_upload_element", "raise")>>]
    ELSE IF dom = "plain"
    THEN [act |-> Idle, result |-> NoElementError(index),
          steps |-> <<IndexStep("get_dom_element_by_index", "found", index),
                      Step("get_file_upload_element", "none")>>]
    ELSE [act |-> [name |-> "upload_cv", pc |-> 2, index |-> index], result |-> NoResult,
          steps |-> <<IndexStep("get_dom_element_by_index", "found", index),
                      Step("get_file_upload_element", "found")>>]

\* lines 125-134, after the awaited get_dom_element_by_index ended as `dom`
\* says; the two calls stand outside the try block of lines 142-149, so an
\* exception of either leaves the action
UploadAfterDom(index, dom) ==
    IF dom = "raise"
    THEN [act |-> Idle, result |-> Raised("Exception"),
          steps |-> <<IndexStep("get_dom_element_by_index", "raise", index)>>]
    ELSE IF dom = "none"
    THEN [act |-> Idle, result |-> NoElementError(index),
          steps |-> <<IndexStep("get_dom_element_by_index", "none", index)>>]
    ELSE IF dom = "nested_raise"
    THEN [act |-> Idle, result |-> Raised("Exception"),
          steps |-> <<IndexStep("get_dom_element_by_index", "found", index),
                      Step("get_file_upload_element", "raise")>>]
    ELSE IF dom = "plain"
    THEN [act |-> Idle, result |-> NoUploadElementError(index),
          steps |-> <<IndexStep("get_dom_element_by_index", "found", index),
                      Step("get_file_upload_element", "none")>>]
    ELSE [act |-> Uploading(2, index), result |-> NoResult,
          steps |-> <<IndexStep("get_dom_element_by_index", "found", index),
                      Step("get_file_upload_element", "found")>>]

\* lines 136-140, after the awaited get_locate_element ended as `el` says;
\* the call stands outside the try block, so its exception leaves the action
UploadAfterLocate(index, el) ==
    IF el = "raise"
    THEN [act |-> Idle, result |-> Raised("Exception"),
          steps |-> <<Step("get_locate_element", "raise")>>]
    ELSE IF el = "none"
    THEN [act |-> Idle, result |-> NoUploadElementError(index),
          steps |-> <<Step("get_locate_element", "none")>>]
    ELSE [act |-> Uploading(3, index), result |-> NoResult,
          steps |-> <<Step("get_locate_element", "found")>>]

\* set_input_files outside any try block: its exception leaves the action
UploadAfterSet_NoHandler(index, out) ==
    IF out = "raise"
    THEN [act |-> Idle, result |-> Raised("Exception"),
          steps |-> <<Step("set_input_files", "raise")>>]
    ELSE [act |-> Idle, result |-> UploadSuccess(CvPath, index),
          steps |-> <<Step("set_input_files", "ok")>>]

\* lines 142-149, after set_input_files(path) returned or raised
UploadAfterSet(index, out) ==
    IF out = "raise"
    THEN [act |-> Idle, result |-> UploadFailedError(index),
          steps |-> <<Step("set_input_files", "raise")>>]
    ELSE [act |-> Idle, result |-> UploadSuccess(CvPath, index),
          steps |-> <<Step("set_input_files", "ok")>>]

\* the agent calls the action: the coroutine runs to its first await
upload_cv(a, index) ==
    /\ Ready(a)
    /\ act' = [act EXCEPT ![a] = Uploading(1, index)]
    /\ result' = [result EXCEPT ![a] = NoResult]
    /\ trace' = [trace EXCEPT ![a] = <<>>]
    /\ UNCHANGED <<procVars, status, store, appended>>

\* what the call awaited at position k may lead to
UploadOutcomes(k, index) ==
    CASE k = 1 -> {UploadAfterDom(index, dom) : dom \in DomChoices}
      [] k = 2 -> {UploadAfterLocate(index, el) : el \in LocateChoices}
      [] OTHER -> {UploadAfterSet(index, out) : out \in {"ok", "raise"}}

\* the awaited call returns or raises, and the coroutine runs to its next
\* await, to its return, or ends by the exception
upload_cv_step(a) ==
    /\ status[a] = "running"
    /\ act[a].name = "upload_cv"
    /\ \E n \in UploadOutcomes(act[a].pc, act[a].index) :
          /\ trace' = [trace EXCEPT ![a] = @ \o n.steps]
          /\ act' = [act EXCEPT ![a] = n.act]
          /\ result' = [result EXCEPT ![a] = n.result]
    /\ UNCHANGED <<procVars, status, store, appended>>

-----------------------------------------------------------------------------
(* The program                                                             *)

\* main() and asyncio.run(), from the first module-level statement on
ProcessStep ==
    \/ CreateController
    \/ CheckCV
    \/ RegisterActions
    \/ CreateBrowser
    \/ RunMain
    \/ MainCreateAgent
    \/ MainGather
    \/ GatherReturn
    \/ GatherRaise
    \/ RunShutdown

\* one step of an agent that may use every registered action; the jobs it
\* saves are all JobA, so that the store stays small next to the browser
\* actions
AgentStep(a) ==
    \/ save_jobs(a, JobA)
    \/ read_jobs(a)
    \/ linkedin_login(a)
    \/ linkedin_login_step(a)
    \/ read_cv(a)
    \/ \E index \in Indexes : upload_cv(a, index)
    \/ upload_cv_step(a)
    \/ AgentDone(a)
    \/ AgentRaise(a)

Next == ProcessStep \/ \E a \in Agents : AgentStep(a)

\* The whole program: start-up, main(), and two agents using all five actions
Spec == Init /\ [][Next]_vars

\* one step of an agent that only uses the store actions, with any job
StoreStep(a) ==
    \/ \E job \in Jobs : save_jobs(a, job)
    \/ read_jobs(a)
    \/ AgentDone(a)
    \/ AgentRaise(a)

NextStore == ProcessStep \/ \E a \in Agents : StoreStep(a)

\* The program with agents that call save_jobs and read_jobs only: the store
\* under every interleaving of the two agents' saves and reads
SpecStore == Init /\ [][NextStore]_vars

-----------------------------------------------------------------------------
(* Properties                                                              *)

Terminated == {"completed", "failed", "cancelled"}

\* C1: a process started without both credentials (linkedin_email or
\* linkedin_password unset or empty) fails while loading them, before the
\* registry, the browser or any agent exists, so no agent is ever launched.
\* The script never calls get_linkedin_credentials, so this does not hold.
C1_NoAgentWithoutCredentials ==
    get_linkedin_credentials(env).raised =>
        \A a \in Agents : status[a] = "notlaunched"

\* C7: when the resume file is missing at start-up the process aborts before
\* the browser is created and before any agent is constructed or launched.
C7_MissingResumeAborts ==
    ~cvExists =>
        /\ ppc \in {"start", "cv_check", "aborted"}
        /\ ~browser.created
        /\ agents = <<>>
        /\ \A a \in Agents : status[a] = "notlaunched"

\* C7 witness: the resume is missing and the existence test has ended the
\* process.
C7_Witness == ~cvExists /\ ppc = "aborted"

-----------------------------------------------------------------------------
(* Reading jobs.csv back as comma-delimited rows                           *)

RECURSIVE ScanField(_, _, _, _)
\* a reader of comma-delimited text, one field from position i on: a quoted
\* field may hold commas, line breaks and doubled quotes; outside quotes a
\* comma ends the field and a line break ends the row
ScanField(t, i, fld, quoted) ==
    IF i > Len(t) THEN [fld |-> fld, next |-> i, stop |-> "end"]
    ELSE IF quoted
    THEN IF t[i] = QUOTE
         THEN IF i < Len(t) /\ t[i + 1] = QUOTE
              THEN ScanField(t, i + 2, Append(fld, QUOTE), TRUE)
              ELSE ScanField(t, i + 1, fld, FALSE)
         ELSE ScanField(t, i + 1, Append(fld, t[i]), TRUE)
    ELSE IF t[i] = QUOTE THEN ScanField(t, i + 1, fld, TRUE)
    ELSE IF t[i] = COMMA THEN [fld |-> fld, next |-> i + 1, stop |-> "comma"]
    ELSE IF t[i] = CR /\ i < Len(t) /\ t[i + 1] = LF
    THEN [fld |-> fld, next |-> i + 2, stop |-> "row"]
    ELSE IF t[i] \in {CR, LF} THEN [fld |-> fld, next |-> i + 1, stop |-> "row"]
    ELSE ScanField(t, i + 1, Append(fld, t[i]), FALSE)

RECURSIVE ScanRow(_, _, _)
\* the fields of the row that starts at position i
ScanRow(t, i, row) ==
    LET f == ScanField(t, i, <<>>, FALSE)
    IN  IF f.stop = "comma" THEN ScanRow(t, f.next, Append(row, f.fld))
        ELSE [row |-> Append(row, f.fld), next |-> f.next]

RECURSIVE ScanRows(_, _, _)
ScanRows(t, i, rows) ==
    IF i > Len(t) THEN rows
    ELSE LET r == ScanRow(t, i, <<>>)
         IN  ScanRows(t, r.next, Append(rows, r.row))

\* the rows of a comma-delimited text, each a sequence of fields
ParseCsv(t) == ScanRows(t, 1, <<>>)

\* the text of an optional field: None reads back as the empty field
TextOf(v) == IF v.isNone THEN <<>> ELSE v.s

\* the five fields of a job in the store's column order
FiveFields(job) ==
    <<job.title, job.company, job.link, TextOf(job.salary), TextOf(job.location)>>

\* the same fields as a text-mode read shows them: line endings become "\n"
FiveFieldsAsRead(job) ==
    [k \in 1..5 |-> TranslateNewlines(FiveFields(job)[k])]

\* the last n rows of a row sequence
LastRows(rows, n) == SubSeq(rows, Len(rows) - n + 1, Len(rows))

\* jobs.csv is a file
IsFile(st) == st.exists /\ ~st.dir

\* what read_jobs returns in the current state, parsed into rows
RowsRead == ParseCsv(ReadStore(store).value.s)

\* C2 as stated: whatever was appended, a read returns rows that end with one
\* row per completed save_jobs, in completion order, each holding exactly the
\* job's title, company, link, salary and location.
C2_RoundTripExact ==
    IsFile(store) =>
        LET rows == RowsRead
        IN  /\ ReadStore(store).kind = "str"
            /\ Len(rows) >= Len(appended)
            /\ LastRows(rows, Len(appended)) =
                   [k \in 1..Len(appended) |-> FiveFields(appended[k])]

\* C2 amended: the rows come back in completion order, five fields each in the
\* order title, company, link, salary, location, with every line ending
\* inside a field ("\r" or "\r\n") read back as "\n".
C2_RoundTripAsRead ==
    IsFile(store) =>
        LET rows == RowsRead
        IN  /\ ReadStore(store).kind = "str"
            /\ Len(rows) >= Len(appended)
            /\ \A k \in 1..Len(rows) : Len(rows[k]) = 5
            /\ LastRows(rows, Len(appended)) =
                   [k \in 1..Len(appended) |-> FiveFieldsAsRead(appended[k])]

\* C2 witness: two different jobs were appended to a store that already held
\* a row, and an agent holds the content read_jobs returned after both.
C2_Witness ==
    /\ Len(appended) = 2
    /\ appended[1] # appended[2]
    /\ Len(RowsRead) = 3
    /\ \E a \in Agents : result[a] = ReadStore(store) /\ result[a].kind = "str"

\* the rows a parse of the stored text yields
StoreRows(st) == ParseCsv(TranslateNewlines(st.data))

\* C3 as stated: a read_jobs while no save_jobs has ever completed (the
\* store holds no row) raises FileNotFoundError instead of returning empty
\* content and does not create the store; once a save_jobs has completed a
\* read returns the text.
C3_ReadBeforeAnySaveFails ==
    [][\A a \in Agents : (read_jobs(a) /\ ~store.dir) =>
           IF store.data = <<>>
           THEN /\ result'[a] = Raised("FileNotFoundError")
                /\ store' = NoFile
           ELSE result'[a].kind = "str"]_vars

\* C3 amended: read_jobs on a missing store raises FileNotFoundError, returns
\* no content and leaves the store missing; a read of an existing file
\* returns its text.  The store never disappears; only save_jobs creates it,
\* and it does so whether its write completes or fails, so a store that
\* exists may hold no row; after a save_jobs that completed the store is a
\* file.
C3_MissingStoreRead ==
    [][/\ \A a \in Agents : read_jobs(a) =>
              /\ store' = store
              /\ IF ~store.exists
                 THEN /\ result'[a].kind = "raise"
                      /\ result'[a].exc = "FileNotFoundError"
                      /\ result'[a].value.isNone
                 ELSE IsFile(store) =>
                          /\ result'[a].kind = "str"
                          /\ result'[a].value = Some(TranslateNewlines(store.data))
       /\ store.exists => store'.exists
       /\ (~store.exists /\ store'.exists) =>
              /\ \E a \in Agents : \E job \in Jobs : save_jobs(a, job)
              /\ IsFile(store')
              /\ \/ appended' # appended
                 \/ store'.data = <<>> /\ \E a \in Agents : result'[a].kind = "raise"
       /\ appended' # appended => IsFile(store') /\ store'.data # <<>>]_vars

\* C3 witness: an agent's read has just failed on the missing store.
C3_Witness ==
    /\ ~store.exists
    /\ \E a \in Agents : result[a].kind = "raise" /\ result[a].exc = "FileNotFoundError"

\* C10: under every interleaving of the two agents' save_jobs and read_jobs
\* the store is append-only: a save adds exactly one row after the rows
\* already there, which stay as they were, also when a row with the same link
\* is already stored; a save that raises adds no row and leaves the rows as
\* they were; nothing else changes the store, and a read never does.
C10_AppendOnly ==
    [][/\ \A a \in Agents : \A job \in Jobs : save_jobs(a, job) =>
              IF result'[a] = StrResult(<<"Saved job to file">>)
              THEN /\ IsFile(store')
                   /\ Len(store'.data) > Len(store.data)
                   /\ SubSeq(store'.data, 1, Len(store.data)) = store.data
                   /\ StoreRows(store') =
                          Append(StoreRows(store), FiveFieldsAsRead(job))
              ELSE /\ result'[a].kind = "raise"
                   /\ store'.data = store.data
                   /\ appended' = appended
       /\ \A a \in Agents : read_jobs(a) => store' = store
       /\ store' # store => \E a \in Agents : \E job \in Jobs : save_jobs(a, job)]_vars

\* C10 witness: both agents have saved, and the store holds two rows with the
\* same link, one per save.
C10_Witness ==
    /\ Len(appended) = 2
    /\ appended[1].link = appended[2].link
    /\ \A a \in Agents : result[a] = StrResult(<<"Saved job to file">>)
    /\ LET rows == StoreRows(store)
       IN  /\ Len(rows) >= 2
           /\ rows[Len(rows)][3] = rows[Len(rows) - 1][3]

-----------------------------------------------------------------------------
(* linkedin_login and upload_cv                                            *)

\* the trace of agent a belongs to a call of linkedin_login
InLogin(a) ==
    act[a].name = "linkedin_login" \/ (trace[a] # <<>> /\ trace[a][1].step = "goto")

\* the trace of agent a belongs to a call of upload_cv
InUpload(a) ==
    act[a].name = "upload_cv"
        \/ (trace[a] # <<>> /\ trace[a][1].step = "get_dom_element_by_index")

\* the call of agent a has returned to the agent
Returned(a) == status[a] = "running" /\ act[a].name = "idle"

IsSuccess(r) ==
    /\ r.kind = "ActionResult"
    /\ ~r.extracted_content.isNone
    /\ r.error.isNone

IsError(r) ==
    /\ r.kind = "ActionResult"
    /\ r.extracted_content.isNone
    /\ ~r.error.isNone
    /\ Len(r.error.s) > 0

\* C4: linkedin_login runs goto, locate and fill username, locate and fill
\* password, locate and click submit, wait for navigation, in that order and
\* each at most once; after a step raised no further step runs; it returns
\* success (content set, memory flag true) exactly when all eight steps ended
\* without an exception, and otherwise an error result with a non-empty
\* message and memory flag false; no exception leaves the action.
C4_LoginProtocol ==
    \A a \in Agents : InLogin(a) =>
        LET t == trace[a]
            n == Len(t)
            allOk == \A i \in 1..n : t[i].out = "ok"
        IN  /\ n <= Len(LoginSteps)
            /\ \A i \in 1..n : t[i].step = LoginSteps[i]
            /\ \A i \in 1..(n - 1) : t[i].out = "ok"
            /\ act[a].name = "linkedin_login" =>
                   allOk /\ act[a].pc = n + 1 /\ result[a].kind = "none"
            /\ Returned(a) =>
                   /\ result[a].kind = "ActionResult"
                   /\ (IsSuccess(result[a]) /\ result[a].include_in_memory)
                          <=> (n = Len(LoginSteps) /\ allOk)
                   /\ ~(n = Len(LoginSteps) /\ allOk) =>
                          /\ t[n].out = "raise"
                          /\ IsError(result[a])
                          /\ ~result[a].include_in_memory

\* C4 witness: one agent's login has succeeded after all eight steps, and the
\* other agent's login has returned an error after its third step raised an
\* exception whose text is empty.
C4_Witness ==
    \E a, b \in Agents :
        /\ Returned(a) /\ InLogin(a) /\ Len(trace[a]) = 8 /\ IsSuccess(result[a])
        /\ Returned(b) /\ InLogin(b) /\ Len(trace[b]) = 3 /\ IsError(result[b])
        /\ result[b].error.s = <<"Failed to login to LinkedIn: ">>

\* t holds the token x
Mentions(t, x) == \E i \in 1..Len(t) : t[i] = x

\* the resolution calls of upload_cv, which stand outside its try block
ResolutionSteps ==
    {"get_dom_element_by_index", "get_file_upload_element", "get_locate_element"}

\* what C5 says of the trace and result of agent a's upload_cv, apart from
\* the kinds of result a finished call may have: set_input_files is called only
\* after every resolution step found its element; no element at the index
\* gives an error naming the index; an element without upload control (or
\* one that cannot be located) gives a different error naming the index; a
\* failing file assignment gives the generic upload failure; a file
\* assignment that went through gives a success message with the absolute
\* resume path and the index
UploadCases(a) ==
    LET t == trace[a]
        n == Len(t)
        i == IF n > 0 THEN t[1].arg ELSE act[a].index
        r == result[a]
    IN  /\ \A k \in 1..n : t[k].step = "set_input_files" =>
               /\ k = 4
               /\ \A j \in 1..3 : t[j].out = "found"
        /\ \A k \in 1..(n - 1) : t[k].out = "found"
        /\ act[a].name = "upload_cv" => r.kind = "none" /\ act[a].index = i
        /\ Returned(a) =>
               /\ n >= 1
               /\ (t[n].step = "get_dom_element_by_index" /\ t[n].out = "none") =>
                      /\ IsError(r)
                      /\ r.error.s = <<"No element found at index ", IntStr(i)>>
               /\ (t[n].step \in {"get_file_upload_element", "get_locate_element"}
                     /\ t[n].out = "none") =>
                      /\ IsError(r)
                      /\ r.error.s = <<"No file upload element found at index ", IntStr(i)>>
               /\ (t[n].step = "set_input_files" /\ t[n].out = "raise") =>
                      /\ IsError(r)
                      /\ r.error.s = <<"Failed to upload file to index ", IntStr(i)>>
               /\ (t[n].step = "set_input_files" /\ t[n].out = "ok") =>
                      /\ IsSuccess(r)
                      /\ Mentions(r.extracted_content.s, CvPath)
                      /\ Mentions(r.extracted_content.s, IntStr(i))
               /\ IsError(r) => Mentions(r.error.s, IntStr(i))
               /\ IsSuccess(r) => t[n].step = "set_input_files" /\ t[n].out = "ok"

\* C5 as stated: upload_cv(index) ends in exactly one of four outcomes, decided
\* by the first resolution step that fails: the error of a missing element,
\* the error of a missing upload control, the generic upload failure, and
\* otherwise the success message; every finished call returns one of them.
C5_UploadFourOutcomes ==
    \A a \in Agents : InUpload(a) =>
        /\ UploadCases(a)
        /\ Returned(a) => IsSuccess(result[a]) \/ IsError(result[a])

\* C5 amended: the four outcomes are as stated, and a fifth exists: an
\* exception raised by a resolution call (get_dom_element_by_index,
\* get_file_upload_element, get_locate_element) is not caught and leaves
\* upload_cv; no later step runs, and set_input_files never ends this way.
C5_UploadOutcomes ==
    \A a \in Agents : InUpload(a) =>
        /\ UploadCases(a)
        /\ Returned(a) =>
               LET last == trace[a][Len(trace[a])]
               IN  /\ IsSuccess(result[a]) \/ IsError(result[a])
                       \/ result[a] = Raised("Exception")
                   /\ result[a].kind = "raise" <=>
                          (last.step \in ResolutionSteps /\ last.out = "raise")

\* C5 witness: for two different indexes, one upload has succeeded and the
\* other has ended at an element without upload control.
C5_Witness ==
    \E a, b \in Agents :
        /\ Returned(a) /\ InUpload(a) /\ IsSuccess(result[a])
        /\ Returned(b) /\ InUpload(b) /\ Len(trace[b]) = 2 /\ IsError(result[b])
        /\ trace[a][1].arg # trace[b][1].arg

-----------------------------------------------------------------------------
(* Errors of the actions                                                   *)

\* the last step of the call agent a has finished
LastStep(a) == trace[a][Len(trace[a])]

\* the call of agent a has ended on one of the failures of linkedin_login and
\* upload_cv that C8 names: a step of the login raised (a selector not found
\* is a wait_for_selector that raises), an element or upload control was not
\* found, or the file assignment raised
NamedFailure(a) ==
    /\ Returned(a)
    /\ trace[a] # <<>>
    /\ \/ InLogin(a) /\ LastStep(a).out = "raise"
       \/ InUpload(a) /\ LastStep(a).out = "none"
       \/ InUpload(a) /\ LastStep(a).step = "set_input_files"
              /\ LastStep(a).out = "raise"

\* C8 as stated: a selector not found in linkedin_login, an element not found
\* or a failing file assignment in upload_cv, and the missing store in
\* read_jobs all end as a structured error result; none of them leaves the
\* action as an exception.
C8_NoExceptionLeavesAnAction ==
    \A a \in Agents :
        /\ NamedFailure(a) => IsError(result[a])
        /\ result[a].exc # "FileNotFoundError"

\* C8 amended: the named failures of linkedin_login and upload_cv end as a
\* structured error result and never as an exception, and nothing leaves
\* linkedin_login as an exception; the missing store is not caught:
\* FileNotFoundError leaves read_jobs.  The other exceptions that leave an
\* action are those of calls outside any try block: open() on a directory
\* and the write of save_jobs, the resolution calls of upload_cv, and
\* PdfReader and extract_text in read_cv.
C8_NamedFailuresCaughtExceptRead ==
    /\ \A a \in Agents :
           /\ NamedFailure(a) => IsError(result[a])
           /\ InLogin(a) => result[a].kind # "raise"
           /\ result[a].kind = "raise" =>
                  \/ /\ trace[a] = <<>>
                     /\ result[a] \in {ReadStore(NoFile), ReadStore(Directory),
                                       Raised("UnicodeEncodeError")}
                  \/ /\ trace[a] # <<>>
                     /\ LastStep(a).out = "raise"
                     /\ LastStep(a).step \in
                            ResolutionSteps \cup {"PdfReader", "extract_text"}
    /\ ~store.exists =>
           /\ appended = <<>>
           /\ ReadStore(store).kind = "raise"

\* C8 witness: one agent's upload has returned the error result of a failed
\* file assignment while the other agent's read_jobs has raised on the
\* missing store.
C8_Witness ==
    \E a, b \in Agents :
        /\ NamedFailure(a) /\ InUpload(a) /\ Len(trace[a]) = 4 /\ IsError(result[a])
        /\ Returned(b) /\ result[b].kind = "raise"
        /\ result[b].exc = "FileNotFoundError"
        /\ ~store.exists

-----------------------------------------------------------------------------
(* The task runner                                                         *)

MainFinished == ppc \in {"main_returned", "main_raised", "exited_ok", "exited_error"}

\* one agent per role, each with the one model, controller and browser
AgentsAsBuilt ==
    /\ Len(agents) = Len(Roles)
    /\ \A i \in 1..Len(agents) :
           /\ agents[i].task = <<"ground_task", Roles[i]>>
           /\ agents[i].llm = agents[1].llm
           /\ agents[i].controller = "controller"
           /\ agents[i].browser = "browser"
    /\ controller.created
    /\ browser.created

\* C6 as stated: whenever main() has finished, every agent loop it launched
\* has terminated, whether it succeeded or not.
C6_MainEndsAfterAllLoops ==
    MainFinished => \A a \in Agents : status[a] \in Terminated

\* C6 amended: main() builds one agent per role (two) on the same browser,
\* controller and model and launches all loops together.  When it returns,
\* every loop has completed.  When a loop raises, main() ends with that
\* exception while other loops may still be running; asyncio.run then cancels
\* them, so every loop has terminated once the process has ended.
C6_RunnerWaits ==
    /\ Len(Roles) = 2
    /\ ppc \in {"gather", "main_returned", "main_raised", "exited_ok", "exited_error"} =>
           /\ AgentsAsBuilt
           /\ \A a \in Agents : status[a] # "notlaunched"
    /\ ppc \notin {"gather", "main_returned", "main_raised", "exited_ok", "exited_error"} =>
           \A a \in Agents : status[a] = "notlaunched"
    /\ ppc \in {"main_returned", "exited_ok"} =>
           \A a \in Agents : status[a] = "completed"
    /\ ppc \in {"main_raised", "exited_error"} =>
           \E a \in Agents : status[a] = "failed"
    /\ ppc \in {"exited_ok", "exited_error"} =>
           \A a \in Agents : status[a] \in Terminated

\* C6 witness: main() has ended with the exception of one agent while the
\* other agent is in the middle of an action.
C6_Witness ==
    /\ ppc = "main_raised"
    /\ \E a, b \in Agents :
           /\ status[a] = "failed"
           /\ status[b] = "running"
           /\ act[b].name # "idle"

\* C9 as stated: a launched loop ends only by its own completion or its own
\* unhandled exception; nothing cancels it.
C9_NoCancellation ==
    [][\A a \in Agents : status[a] = "running" =>
           status'[a] \in {"running", "completed", "failed"}]_vars

\* C9 amended: when one run raises, the wait fails as a whole and leaves the
\* other loop untouched, and that loop can go on while main() is ending; but
\* asyncio.run then cancels every loop still running.  A loop ends by its own
\* completion, by its own exception, or by this cancellation after main()
\* failed, and by nothing else.
C9_CancelledOnlyAtShutdown ==
    [][/\ (ppc = "gather" /\ ppc' = "main_raised") =>
              /\ \E a \in Agents : status[a] = "failed"
              /\ status' = status
              /\ act' = act
       /\ \A a \in Agents : status[a] = "running" =>
              \/ status'[a] \in {"running", "completed", "failed"}
              \/ /\ status'[a] = "cancelled"
                 /\ ppc = "main_raised"
                 /\ ppc' = "exited_error"
                 /\ \E b \in Agents : status[b] = "failed"
       /\ \A a \in Agents : status[a] \in Terminated => status'[a] = status[a]]_vars

\* C9 witness: one loop failed, and the other was cancelled at shutdown.
C9_Witness ==
    /\ ppc = "exited_error"
    /\ \E a, b \in Agents : status[a] = "failed" /\ status[b] = "cancelled"

=============================================================================
